---- MODULE Spec2Model ----
(***************************************************************************)
(* A model of the Telegram bot of SahandMSV/Playwright-AI-Telegram-        *)
(* Automation: the browser session and extraction run of                   *)
(* src/automation/tasks.js and the catalog cache and menu handlers of      *)
(* src/commands/handlers.js.                                               *)
(*                                                                         *)
(* Node runs the handlers on one thread: a handler runs without            *)
(* interruption up to its next `await`, and other handlers run while it is *)
(* suspended there.  A task of the model is one handler invocation; its pc *)
(* names the await it is suspended at.  One action of the model is the     *)
(* completion of that await (with its outcome: the external call succeeds  *)
(* or throws) followed by all the synchronous code up to the next await.   *)
(***************************************************************************)
EXTENDS Integers, Sequences, FiniteSets, TLC

\* ------------------------------------------------------------------ bounds

\* Handler invocations that may be in flight at the same time.
NumTasks == 2

\* Telegram message identifiers handed out (request and menu messages).
MaxMsgId == 4

\* The same, where the callbacks of the menu run too.
MaxMenuMsgId == 2

\* No run is started once this many browsers were launched.
MaxLaunches == 2

Tasks == 1..NumTasks
Users == {1, 2}
MsgIds == 1..MaxMsgId

\* A private chat: Telegram gives it the identifier of its user.
ChatOf(u) == u

\* ---------------------------------------------------------------- catalogs

\* CatalogEntry values as the extractor builds them (tasks.js 168-172);
\* isBeta is the badge text, "" standing for null (both are falsy).
EntryA == [name |-> "A", isBeta |-> "", features |-> <<>>]
EntryB == [name |-> "B", isBeta |-> "Beta", features |-> <<"x", "y">>]

\* What $$eval may return: the page's list at the time of the run.
Catalogs == {<<>>, <<EntryA>>, <<EntryA, EntryB>>}

\* Names a callback query may carry: buttons of any menu message still in
\* the chat, also of earlier runs of the process.
Names == {"A", "B"}

\* userModelsStore[userId] is undefined until a first store.
Absent == [present |-> FALSE, models |-> <<>>]
Stored(ms) == [present |-> TRUE, models |-> ms]

\* userSelectedModelStore[userId] undefined.
NoSelection == "(undefined)"

\* messageStore[chatId] undefined.
NoPair == [userMessageId |-> 0, botMessageId |-> 0]

\* What a message displays: a menu message shows the list or one entry.
NoView == [kind |-> "none", title |-> <<>>, rows |-> <<>>]

\* ------------------------------------------------------------------ results

NoMessage == <<>>

\* navigateToDuckAI's return values (tasks.js 201-205 and 215-220).
NavSuccess(ms) == [success |-> TRUE, message |-> <<"Successfully extracted">>,
                   models |-> ms]
NavFailure(m) == [success |-> FALSE, message |-> <<"Error: ", m>>,
                  models |-> <<>>]
NoResult == [success |-> FALSE, message |-> NoMessage, models |-> <<>>]

\* ensureModelsLoaded's return values (handlers.js 124, 129-132, 166, 176, 180).
NoLoad == [success |-> FALSE, alreadyLoaded |-> FALSE, message |-> NoMessage,
           status |-> "none"]
AlreadyLoaded == [success |-> TRUE, alreadyLoaded |-> TRUE,
                  message |-> NoMessage, status |-> "AlreadyLoaded"]
Busy == [success |-> FALSE, alreadyLoaded |-> FALSE,
         message |-> <<"Already fetching models, please wait...">>,
         status |-> "Busy"]
Loaded == [success |-> TRUE, alreadyLoaded |-> FALSE, message |-> NoMessage,
           status |-> "Loaded"]
Failed(m) == [success |-> FALSE, alreadyLoaded |-> FALSE, message |-> m,
              status |-> "Failed"]

\* error.message of what the driver and the Bot API throw.
LaunchError == "browserType.launch: failed"
TimeoutError == "Timeout exceeded"
ChallengeError == "CAPTCHA/Challenge detected. Cannot proceed in headless mode"
NullPageError == "Cannot read properties of null (reading 'url')"
CloseError == "browser.close: failed"
TelegramError == "telegram: request failed"

\* -------------------------------------------------------------------- state

VARIABLES
    messageStore,            \* handlers.js 7
    userAcceptanceStore,     \* handlers.js 10
    userModelsStore,         \* handlers.js 13
    userSelectedModelStore,  \* handlers.js 16
    fetchingModelsFor,       \* handlers.js 19
    globalBrowser,           \* tasks.js 5 (0: null)
    globalContext,           \* tasks.js 6 (0: null)
    globalPage,              \* tasks.js 7 (0: null)
    launched,                \* browser processes launched so far
    browsers,                \* browser processes launched and not closed
    pageOnSite,              \* pages whose url() includes "duck.ai"
    nextMsgId,               \* Telegram's next message identifier
    deleted,                 \* messages the bot has deleted
    view,                    \* what each menu message displays
    chatOf,                  \* the chat of each menu message sent (0: none)
    tasks                    \* the handler invocations

vars == <<messageStore, userAcceptanceStore, userModelsStore,
          userSelectedModelStore, fetchingModelsFor, globalBrowser,
          globalContext, globalPage, launched, browsers, pageOnSite, nextMsgId,
          deleted, view, chatOf, tasks>>

stores == <<messageStore, userAcceptanceStore, userModelsStore,
            userSelectedModelStore, fetchingModelsFor>>
session == <<globalBrowser, globalContext, globalPage, launched, browsers,
             pageOnSite>>
telegram == <<nextMsgId, deleted, view, chatOf>>

\* A handler invocation: its position, its arguments and its locals.
IdleTask == [pc |-> "idle", kind |-> "none", userId |-> 0, modelName |-> "",
             keepOpen |-> TRUE, launchId |-> 0, closing |-> 0, page |-> 0,
             models |-> <<>>,
             error |-> "", result |-> NoResult, loadResult |-> NoLoad,
             userMessageId |-> 0, msgId |-> 0, delId |-> 0, text |-> NoView,
             raised |-> FALSE]

Init ==
    /\ messageStore = [c \in Users |-> NoPair]
    /\ userAcceptanceStore \in [Users -> BOOLEAN]   \* loadUsers at startup
    /\ userModelsStore = [u \in Users |-> Absent]
    /\ userSelectedModelStore = [u \in Users |-> NoSelection]
    /\ fetchingModelsFor = {}
    /\ globalBrowser = 0
    /\ globalContext = 0
    /\ globalPage = 0
    /\ launched = 0
    /\ browsers = {}
    /\ pageOnSite = {}
    /\ nextMsgId = 1
    /\ deleted = {}
    /\ view = [m \in MsgIds |-> NoView]
    /\ chatOf = [m \in MsgIds |-> 0]
    /\ tasks = [t \in Tasks |-> IdleTask]

\* The task slot a new invocation takes: the lowest free one.
Free(t) == tasks[t].pc \in {"idle", "done"}
NextFree(t) == Free(t) /\ \A s \in Tasks : s < t => ~Free(s)

\* The handler returned (raised = FALSE) or its promise rejected.
Finish(r, raised) ==
    [IdleTask EXCEPT !.pc = "done", !.kind = r.kind, !.userId = r.userId,
                     !.modelName = r.modelName, !.raised = raised]

SetTask(t, r) == tasks' = [tasks EXCEPT ![t] = r]
At(t, label) == tasks[t].pc = label

\* ------------------------------------------- navigateToDuckAI (tasks.js)

\* `return {...}`: the promise of the call resolves, and the caller, which
\* awaits it, resumes in a later turn.
NavReturn(r, res) ==
    [r EXCEPT !.pc = "navReturn", !.result = res, !.page = 0, !.launchId = 0,
              !.closing = 0, !.models = <<>>, !.error = ""]

\* A catch block that closes the browser whatever keepOpen is.
NavThrowAlwaysCloses(r, m, gb) ==
    IF gb # 0
    THEN [r EXCEPT !.pc = "catchClose", !.error = m, !.closing = gb]
    ELSE NavReturn(r, NavFailure(m))

\* A throw inside the try block lands in the catch (206-221): the browser is
\* closed only when keepOpen is false; gb is globalBrowser at that moment,
\* the browser close() is called on.
NavThrow(r, m, gb) ==
    IF gb # 0 /\ ~r.keepOpen
    THEN [r EXCEPT !.pc = "catchClose", !.error = m, !.closing = gb]
    ELSE NavReturn(r, NavFailure(m))

\* 79-82 and 118: `const page = globalPage`, then page.url() (a null page
\* throws a TypeError), then goto when not on the site, else the wait for
\* the dropdown button.
UsePage(r, p, onSite, gb) ==
    IF p = 0 THEN NavThrow(r, NullPageError, gb)
    ELSE [r EXCEPT !.page = p,
                   !.pc = IF p \in onSite THEN "waitButton" ELSE "goto"]

\* 14-19: the call itself, up to its first await.
NavCall(r) ==
    IF globalBrowser = 0
    THEN [r EXCEPT !.pc = "launch"]
    ELSE UsePage(r, globalPage, pageOnSite, globalBrowser)

\* 193-205: after the dismiss step.
AfterDismiss(r) ==
    IF ~r.keepOpen /\ globalBrowser # 0
    THEN [r EXCEPT !.pc = "closeBrowser", !.closing = globalBrowser]
    ELSE NavReturn(r, NavSuccess(r.models))

\* An awaited operation that either completes (the call goes on to wait at
\* next) or throws m.
AwaitStep(r, next, m) ==
    {[r EXCEPT !.pc = next], NavThrow(r, m, globalBrowser)}

\* 19-34: chromium.launch resolves, globalBrowser is assigned and
\* newContext is called on it; or launch throws.
Launch(t) ==
    /\ At(t, "launch")
    /\ \/ /\ launched' = launched + 1
          /\ globalBrowser' = launched'
          /\ browsers' = browsers \cup {launched'}
          /\ SetTask(t, [tasks[t] EXCEPT !.pc = "newContext",
                                         !.launchId = launched'])
       \/ /\ SetTask(t, NavThrow(tasks[t], LaunchError, globalBrowser))
          /\ UNCHANGED <<globalBrowser, launched, browsers>>
    /\ UNCHANGED <<stores, globalContext, globalPage, pageOnSite, telegram>>

\* 34-47: the context of the browser this call launched is assigned to
\* globalContext and addInitScript is called on it.
NewContext(t) ==
    /\ At(t, "newContext")
    /\ \/ /\ globalContext' = tasks[t].launchId
          /\ SetTask(t, [tasks[t] EXCEPT !.pc = "addInitScript"])
       \/ /\ SetTask(t, NavThrow(tasks[t], LaunchError, globalBrowser))
          /\ UNCHANGED globalContext
    /\ UNCHANGED <<stores, globalBrowser, globalPage, launched, browsers,
                   pageOnSite, telegram>>

\* 47-76: the stealth script is installed; newPage is called on globalContext.
AddInitScript(t) ==
    /\ At(t, "addInitScript")
    /\ \E r \in AwaitStep(tasks[t], "newPage", LaunchError) : SetTask(t, r)
    /\ UNCHANGED <<stores, session, telegram>>

\* 76-83: the new page (on about:blank) is assigned to globalPage and used.
NewPage(t) ==
    /\ At(t, "newPage")
    /\ \/ /\ globalPage' = tasks[t].launchId
          /\ SetTask(t, UsePage(tasks[t], globalPage', pageOnSite,
                                globalBrowser))
       \/ /\ SetTask(t, NavThrow(tasks[t], LaunchError, globalBrowser))
          /\ UNCHANGED globalPage
    /\ UNCHANGED <<stores, globalBrowser, globalContext, launched, browsers,
                   pageOnSite, telegram>>

\* 83-89: page.goto settles, or times out with the page on either location.
Goto(t) ==
    /\ At(t, "goto")
    /\ \/ /\ pageOnSite' = pageOnSite \cup {tasks[t].page}
          /\ SetTask(t, [tasks[t] EXCEPT !.pc = "settle"])
       \/ /\ pageOnSite' \in {pageOnSite, pageOnSite \cup {tasks[t].page}}
          /\ SetTask(t, NavThrow(tasks[t], TimeoutError, globalBrowser))
    /\ UNCHANGED <<stores, globalBrowser, globalContext, globalPage, launched,
                   browsers, telegram>>

\* The awaits of 89-191, which act on the page alone: they read and write
\* no variable of the program but the locals of the call.
PagePcs == {"settle", "captcha1", "modalVisible", "clickAgree",
            "waitModalHidden", "waitButton", "captcha2", "clickDropdown",
            "waitList", "eval", "clickClose", "waitClosed", "escape"}

\* A driver that clicks the dropdown button again when the list did not
\* show within the bound, instead of failing the run.
PageStepRetries(r) ==
    CASE r.pc = "settle" -> AwaitStep(r, "captcha1", TimeoutError)
      [] r.pc = "captcha1" ->
           {NavThrow(r, ChallengeError, globalBrowser),
            [r EXCEPT !.pc = "modalVisible"]}
      [] r.pc = "modalVisible" ->
           {[r EXCEPT !.pc = "clickAgree"], [r EXCEPT !.pc = "waitButton"]}
      [] r.pc = "clickAgree" -> AwaitStep(r, "waitModalHidden", TimeoutError)
      [] r.pc = "waitModalHidden" -> AwaitStep(r, "waitButton", TimeoutError)
      [] r.pc = "waitButton" -> AwaitStep(r, "captcha2", TimeoutError)
      [] r.pc = "captcha2" ->
           {NavThrow(r, ChallengeError, globalBrowser),
            [r EXCEPT !.pc = "clickDropdown"]}
      [] r.pc = "clickDropdown" -> AwaitStep(r, "waitList", TimeoutError)
      [] r.pc = "waitList" ->
           {[r EXCEPT !.pc = "eval"], [r EXCEPT !.pc = "clickDropdown"]}
      [] r.pc = "eval" ->
           {[r EXCEPT !.pc = "clickClose", !.models = ms] : ms \in Catalogs}
           \cup {NavThrow(r, TimeoutError, globalBrowser)}
      [] r.pc = "clickClose" ->
           {[r EXCEPT !.pc = "waitClosed"], [r EXCEPT !.pc = "escape"]}
      [] r.pc = "waitClosed" ->
           {AfterDismiss(r), [r EXCEPT !.pc = "escape"]}
      [] r.pc = "escape" ->
           {AfterDismiss(r), NavThrow(r, TimeoutError, globalBrowser)}
      [] OTHER -> {}

\* 89-191: the completion of the await the call r is suspended at, with the
\* code that follows it up to the next await: the records the call may be
\* in afterwards.
\*   settle           89   the fixed delay (it throws when the page was
\*                         closed meanwhile); the challenge indicator is
\*                         queried
\*   captcha1      92-100  isVisible().catch(() => false) never throws
\*   modalVisible 103-108  the consent dialog is clicked away when visible
\*   clickAgree      109
\*   waitModalHidden 110
\*   waitButton      118
\*   captcha2     127-135  the second challenge check
\*   clickDropdown   137
\*   waitList        142
\*   eval         151-175  the entries of the page's list
\*   clickClose      179   a failing click goes to the Escape key (188-190)
\*   waitClosed      184   as does a failing wait
\*   escape          190   awaited inside the inner catch: a throw of it
\*                         lands in the outer catch (206)
PageStep(r) ==
    CASE r.pc = "settle" -> AwaitStep(r, "captcha1", TimeoutError)
      [] r.pc = "captcha1" ->
           {NavThrow(r, ChallengeError, globalBrowser),
            [r EXCEPT !.pc = "modalVisible"]}
      [] r.pc = "modalVisible" ->
           {[r EXCEPT !.pc = "clickAgree"], [r EXCEPT !.pc = "waitButton"]}
      [] r.pc = "clickAgree" -> AwaitStep(r, "waitModalHidden", TimeoutError)
      [] r.pc = "waitModalHidden" -> AwaitStep(r, "waitButton", TimeoutError)
      [] r.pc = "waitButton" -> AwaitStep(r, "captcha2", TimeoutError)
      [] r.pc = "captcha2" ->
           {NavThrow(r, ChallengeError, globalBrowser),
            [r EXCEPT !.pc = "clickDropdown"]}
      [] r.pc = "clickDropdown" -> AwaitStep(r, "waitList", TimeoutError)
      [] r.pc = "waitList" -> AwaitStep(r, "eval", TimeoutError)
      [] r.pc = "eval" ->
           {[r EXCEPT !.pc = "clickClose", !.models = ms] : ms \in Catalogs}
           \cup {NavThrow(r, TimeoutError, globalBrowser)}
      [] r.pc = "clickClose" ->
           {[r EXCEPT !.pc = "waitClosed"], [r EXCEPT !.pc = "escape"]}
      [] r.pc = "waitClosed" ->
           {AfterDismiss(r), [r EXCEPT !.pc = "escape"]}
      [] r.pc = "escape" ->
           {AfterDismiss(r), NavThrow(r, TimeoutError, globalBrowser)}
      [] OTHER -> {}

\* One await of 89-191 completes.
DriveStep(t) ==
    /\ tasks[t].pc \in PagePcs
    /\ \E r \in PageStep(tasks[t]) : SetTask(t, r)
    /\ UNCHANGED <<stores, session, telegram>>

\* The records a call may be in when it has left 89-191.
RECURSIVE DriveFrom(_)
DriveFrom(rs) ==
    LET moving == {r \in rs : r.pc \in PagePcs} IN
    IF moving = {} THEN rs
    ELSE DriveFrom((rs \ moving) \cup UNION {PageStep(r) : r \in moving})

\* The awaits of 89-191 complete, one after the other, up to the return or
\* the throw that ends them.  As none of them reads or writes anything
\* another handler reads or writes, what other handlers do in between them
\* can as well be done before the first: one action stands for the sequence.
Drive(t) ==
    /\ tasks[t].pc \in PagePcs
    /\ \E r \in DriveFrom({tasks[t]}) : SetTask(t, r)
    /\ UNCHANGED <<stores, session, telegram>>

\* The session steps of a run (14-89), which other runs observe.
Acquire(t) ==
    \/ Launch(t) \/ NewContext(t) \/ AddInitScript(t) \/ NewPage(t)
    \/ Goto(t)

Navigate(t) == Acquire(t) \/ Drive(t)

NavigateSteps(t) == Acquire(t) \/ DriveStep(t)

\* 195-205: close() of the browser resolves, the three handles are cleared
\* and the run returns its entries; a throw of it lands in the catch (206).
CloseAfterRun(t) ==
    /\ At(t, "closeBrowser")
    /\ \/ /\ globalBrowser' = 0
          /\ globalContext' = 0
          /\ globalPage' = 0
          /\ browsers' = browsers \ {tasks[t].closing}
          /\ SetTask(t, NavReturn(tasks[t], NavSuccess(tasks[t].models)))
       \/ /\ SetTask(t, NavThrow(tasks[t], CloseError, globalBrowser))
          /\ UNCHANGED <<globalBrowser, globalContext, globalPage, browsers>>
    /\ UNCHANGED <<stores, launched, pageOnSite, telegram>>

\* 209-220: close() inside the catch block resolves, the handles are cleared
\* and the failure is returned; a throw of it rejects the call's promise.
CatchClose(t) ==
    /\ At(t, "catchClose")
    /\ \/ /\ globalBrowser' = 0
          /\ globalContext' = 0
          /\ globalPage' = 0
          /\ browsers' = browsers \ {tasks[t].closing}
          /\ SetTask(t, NavReturn(tasks[t], NavFailure(tasks[t].error)))
       \/ /\ SetTask(t, Finish(tasks[t], TRUE))
          /\ UNCHANGED <<globalBrowser, globalContext, globalPage, browsers>>
    /\ UNCHANGED <<stores, launched, pageOnSite, telegram>>

\* The disposal of the session by a run called with keepOpen = false.
Dispose(t) == CloseAfterRun(t) \/ CatchClose(t)

\* ------------------------------------------------ rendering (handlers.js)

\* 326-331 and 422-427: one row per model, labelled with the name and the
\* bracketed beta marker, carrying the view_model_ callback.
\* The label without the beta marker.
ButtonTextNoBeta(model) == <<model.name>>

ButtonText(model) ==
    IF model.isBeta # "" THEN <<model.name, " [", model.isBeta, "]">>
    ELSE <<model.name>>
ModelButton(model) ==
    [text |-> ButtonText(model), data |-> <<"view_model_", model.name>>]
CloseButton == [text |-> <<"Close">>, data |-> <<"close_menu">>]

\* 326-338 and 422-436
ListView(models) ==
    [kind |-> "list", title |-> <<"Available Models:">>,
     rows |-> [i \in 1..Len(models) |-> ModelButton(models[i])]
              \o <<CloseButton>>]

\* 365-387: the name, the beta marker and one line per feature.
DetailView(model) ==
    [kind |-> "detail", title |-> ButtonText(model), rows |-> model.features]

\* A lookup that takes the first entry whatever its name.
FindModelFirst(models, modelName) == IF Len(models) > 0 THEN 1 ELSE 0

\* 357: models.find((m) => m.name === modelName), 0 when there is none.
FindModel(models, modelName) ==
    IF \E i \in 1..Len(models) : models[i].name = modelName
    THEN CHOOSE i \in 1..Len(models) :
           /\ models[i].name = modelName
           /\ \A j \in 1..(i - 1) : models[j].name # modelName
    ELSE 0

\* userModelsStore[userId] || []
ModelsOf(u) == userModelsStore[u].models

\* ---------------------------------------- ensureModelsLoaded (handlers.js)

\* The check without its second test: every call without a catalog fetches.
EnsureCheckNoGuard(u) ==
    IF userModelsStore[u].present /\ Len(userModelsStore[u].models) > 0
    THEN "AlreadyLoaded"
    ELSE "Fetch"

\* The check without its first test: the stored catalog is not looked at.
EnsureCheckNoCache(u) ==
    IF u \in fetchingModelsFor THEN "Busy" ELSE "Fetch"

\* 123-133: what the call does before its try block.
EnsureCheck(u) ==
    IF userModelsStore[u].present /\ Len(userModelsStore[u].models) > 0
    THEN "AlreadyLoaded"
    ELSE IF u \in fetchingModelsFor THEN "Busy" ELSE "Fetch"

\* A call that leaves the user in the set.
EnsureFinallyKeeps(u) == fetchingModelsFor

\* 181-184: the finally block.
EnsureFinally(u) == fetchingModelsFor \ {u}

\* A return (or a caught throw) inside the try block: the finally block
\* runs, and showModelMenu, which awaits the call, resumes in a later turn.
EnsureReturn(r, res) ==
    [r EXCEPT !.pc = "smmEnsure", !.loadResult = res, !.result = NoResult]

\* 121-140: the call, up to its first await.
EnsureCall(t, r) ==
    LET check == EnsureCheck(r.userId) IN
    /\ SetTask(t, CASE check = "AlreadyLoaded" ->
                         [r EXCEPT !.pc = "smmEnsure",
                                   !.loadResult = AlreadyLoaded]
                    [] check = "Busy" ->
                         [r EXCEPT !.pc = "smmEnsure", !.loadResult = Busy]
                    [] OTHER -> [r EXCEPT !.pc = "emlReply"])
    /\ fetchingModelsFor' = IF check = "Fetch"
                            THEN fetchingModelsFor \cup {r.userId}
                            ELSE fetchingModelsFor

\* Menu requests that still have a menu message to send.
MenusInFlight == Cardinality({s \in Tasks : tasks[s].kind = "menu"
                                            /\ ~Free(s)})

\* 294-308: showModelMenu up to its first await; maxId bounds the message
\* identifiers.
StartShowModelMenu(t, u, maxId) ==
    /\ NextFree(t)
    /\ LET r == [IdleTask EXCEPT !.kind = "menu", !.userId = u] IN
       IF ~userAcceptanceStore[u]
       THEN /\ SetTask(t, Finish(r, FALSE))
            /\ UNCHANGED <<fetchingModelsFor, nextMsgId>>
       ELSE /\ nextMsgId + 1 + MenusInFlight <= maxId
            /\ nextMsgId' = nextMsgId + 1
            /\ EnsureCall(t, [r EXCEPT !.userMessageId = nextMsgId])
    /\ UNCHANGED <<messageStore, userAcceptanceStore, userModelsStore,
                   userSelectedModelStore, session, deleted, view, chatOf>>

\* 140-143: the status message is sent and navigateToDuckAI is called; a
\* failing send is caught (178-184).
EmlReply(t) ==
    /\ At(t, "emlReply")
    /\ \/ /\ SetTask(t, NavCall(tasks[t]))
          /\ UNCHANGED fetchingModelsFor
       \/ /\ SetTask(t, EnsureReturn(tasks[t], Failed(<<TelegramError>>)))
          /\ fetchingModelsFor' = EnsureFinally(tasks[t].userId)
    /\ UNCHANGED <<messageStore, userAcceptanceStore, userModelsStore,
                   userSelectedModelStore, session, telegram>>

\* 143-155 and 167-174: the result of the run; the catalog is stored before
\* the status message is edited.
EmlAfterNav(t) ==
    /\ At(t, "navReturn")
    /\ tasks[t].kind = "menu"
    /\ IF tasks[t].result.success
       THEN /\ userModelsStore' =
                 [userModelsStore EXCEPT ![tasks[t].userId] =
                                             Stored(tasks[t].result.models)]
            /\ SetTask(t, [tasks[t] EXCEPT !.pc = "emlEditOk"])
       ELSE /\ SetTask(t, [tasks[t] EXCEPT !.pc = "emlEditFail"])
            /\ UNCHANGED userModelsStore
    /\ UNCHANGED <<messageStore, userAcceptanceStore, userSelectedModelStore,
                   fetchingModelsFor, session, telegram>>

\* 150-166: the edit of the status message, the delayed deletion of it
\* (which touches no state of the program) and the return.
EmlEditOk(t) ==
    /\ At(t, "emlEditOk")
    /\ \E ok \in BOOLEAN :
         SetTask(t, EnsureReturn(tasks[t],
                                 IF ok THEN Loaded
                                 ELSE Failed(<<TelegramError>>)))
    /\ fetchingModelsFor' = EnsureFinally(tasks[t].userId)
    /\ UNCHANGED <<messageStore, userAcceptanceStore, userModelsStore,
                   userSelectedModelStore, session, telegram>>

\* 169-184
EmlEditFail(t) ==
    /\ At(t, "emlEditFail")
    /\ \E ok \in BOOLEAN :
         SetTask(t, EnsureReturn(tasks[t],
                                 IF ok THEN Failed(tasks[t].result.message)
                                 ELSE Failed(<<TelegramError>>)))
    /\ fetchingModelsFor' = EnsureFinally(tasks[t].userId)
    /\ UNCHANGED <<messageStore, userAcceptanceStore, userModelsStore,
                   userSelectedModelStore, session, telegram>>

\* ---------------------------------------------- showModelMenu (handlers.js)

\* The menu built from whatever is stored, the result of the call ignored.
SmmAfterEnsureUnchecked(t) ==
    /\ At(t, "smmEnsure")
    /\ LET r == tasks[t]
           models == ModelsOf(r.userId) IN
       SetTask(t, IF Len(models) = 0 THEN Finish(r, FALSE)
                  ELSE [r EXCEPT !.pc = "smmReply",
                                 !.text = ListView(models)])
    /\ UNCHANGED <<stores, session, telegram>>

\* 308-338: after ensureModelsLoaded; the keyboard is built from the stored
\* catalog and the menu message is sent.
SmmAfterEnsure(t) ==
    /\ At(t, "smmEnsure")
    /\ LET r == tasks[t]
           models == ModelsOf(r.userId) IN
       SetTask(t, IF ~r.loadResult.success /\ ~r.loadResult.alreadyLoaded
                  THEN Finish(r, FALSE)
                  ELSE IF Len(models) = 0 THEN Finish(r, FALSE)
                  ELSE [r EXCEPT !.pc = "smmReply",
                                 !.text = ListView(models)])
    /\ UNCHANGED <<stores, session, telegram>>

\* 338-345: the menu message is sent and the pair is stored.
SmmReply(t) ==
    /\ At(t, "smmReply")
    /\ \/ /\ nextMsgId' = nextMsgId + 1
          /\ messageStore' =
               [messageStore EXCEPT ![ChatOf(tasks[t].userId)] =
                    [userMessageId |-> tasks[t].userMessageId,
                     botMessageId |-> nextMsgId]]
          /\ view' = [view EXCEPT ![nextMsgId] = tasks[t].text]
          /\ chatOf' = [chatOf EXCEPT ![nextMsgId] = ChatOf(tasks[t].userId)]
          /\ SetTask(t, Finish(tasks[t], FALSE))
       \/ /\ SetTask(t, Finish(tasks[t], TRUE))
          /\ UNCHANGED <<nextMsgId, messageStore, view, chatOf>>
    /\ UNCHANGED <<userAcceptanceStore, userModelsStore,
                   userSelectedModelStore, fetchingModelsFor, session,
                   deleted>>

ShowModelMenu(t) ==
    \/ EmlReply(t) \/ EmlAfterNav(t) \/ EmlEditOk(t) \/ EmlEditFail(t)
    \/ SmmAfterEnsure(t) \/ SmmReply(t)

\* An awaited Bot API call that touches no state of the model: it completes
\* (next) or throws (caught).
TelegramStep(t, at, next, caught) ==
    /\ At(t, at)
    /\ \E ok \in BOOLEAN :
         SetTask(t, IF ok THEN next ELSE caught)
    /\ UNCHANGED <<stores, session, telegram>>

\* ------------------------------------------------ openHandler (handlers.js)

\* /open without the test of the acceptance flag.
StartOpenUnchecked(t, u) ==
    /\ NextFree(t)
    /\ SetTask(t, [IdleTask EXCEPT !.kind = "open", !.userId = u,
                                   !.pc = "openReply"])
    /\ UNCHANGED <<stores, session, telegram>>

\* 542-554
StartOpen(t, u) ==
    /\ NextFree(t)
    /\ LET r == [IdleTask EXCEPT !.kind = "open", !.userId = u] IN
       SetTask(t, IF ~userAcceptanceStore[u] THEN Finish(r, FALSE)
                  ELSE [r EXCEPT !.pc = "openReply"])
    /\ UNCHANGED <<stores, session, telegram>>

\* 554-556: the notice is sent and navigateToDuckAI is called.
OpenReply(t) ==
    TelegramStep(t, "openReply", NavCall(tasks[t]),
                 [tasks[t] EXCEPT !.pc = "openCatchReply"])

\* The entries of the result stored whether the run succeeded or not.
OpenAfterNavUnchecked(t) ==
    /\ At(t, "navReturn")
    /\ tasks[t].kind = "open"
    /\ userModelsStore' =
         [userModelsStore EXCEPT ![tasks[t].userId] =
                                     Stored(tasks[t].result.models)]
    /\ SetTask(t, [tasks[t] EXCEPT !.pc = "openReplyDone",
                                   !.result = NoResult])
    /\ UNCHANGED <<messageStore, userAcceptanceStore, userSelectedModelStore,
                   fetchingModelsFor, session, telegram>>

\* 556-566: the result of the run; the catalog is stored on success.
OpenAfterNav(t) ==
    /\ At(t, "navReturn")
    /\ tasks[t].kind = "open"
    /\ userModelsStore' =
         IF tasks[t].result.success
         THEN [userModelsStore EXCEPT ![tasks[t].userId] =
                                          Stored(tasks[t].result.models)]
         ELSE userModelsStore
    /\ SetTask(t, [tasks[t] EXCEPT !.pc = "openReplyDone",
                                   !.result = NoResult])
    /\ UNCHANGED <<messageStore, userAcceptanceStore, userSelectedModelStore,
                   fetchingModelsFor, session, telegram>>

\* 562-571
OpenReplyDone(t) ==
    TelegramStep(t, "openReplyDone", Finish(tasks[t], FALSE),
                 [tasks[t] EXCEPT !.pc = "openCatchReply"])

\* 568-571: the reply inside the catch block is not guarded.
OpenCatchReply(t) ==
    TelegramStep(t, "openCatchReply", Finish(tasks[t], FALSE),
                 Finish(tasks[t], TRUE))

OpenHandler(t) ==
    \/ OpenReply(t) \/ OpenAfterNav(t) \/ OpenReplyDone(t)
    \/ OpenCatchReply(t)

\* ---------------------------------------- acceptPolicyHandler (handlers.js)

AcceptCaught(r) == [r EXCEPT !.pc = "accCatchEdit", !.result = NoResult]

\* 221-226
StartAccept(t, u) ==
    /\ NextFree(t)
    /\ SetTask(t, [IdleTask EXCEPT !.kind = "accept", !.userId = u,
                                   !.pc = "accEdit1"])
    /\ UNCHANGED <<stores, session, telegram>>

\* 226-230
AccEdit1(t) ==
    TelegramStep(t, "accEdit1", [tasks[t] EXCEPT !.pc = "accSave"],
                 AcceptCaught(tasks[t]))

\* 230-235: saveUser never throws (58-92); the user is marked accepted.
AccSave(t) ==
    /\ At(t, "accSave")
    /\ userAcceptanceStore' =
         [userAcceptanceStore EXCEPT ![tasks[t].userId] = TRUE]
    /\ SetTask(t, [tasks[t] EXCEPT !.pc = "accAnswer"])
    /\ UNCHANGED <<messageStore, userModelsStore, userSelectedModelStore,
                   fetchingModelsFor, session, telegram>>

\* 235-237
AccAnswer(t) ==
    TelegramStep(t, "accAnswer", [tasks[t] EXCEPT !.pc = "accEdit2"],
                 AcceptCaught(tasks[t]))

\* 237-240: navigateToDuckAI is called.
AccEdit2(t) ==
    TelegramStep(t, "accEdit2", NavCall(tasks[t]), AcceptCaught(tasks[t]))

\* 240-247 and 258-259
AcceptAfterNav(t) ==
    /\ At(t, "navReturn")
    /\ tasks[t].kind = "accept"
    /\ userModelsStore' =
         IF tasks[t].result.success
         THEN [userModelsStore EXCEPT ![tasks[t].userId] =
                                          Stored(tasks[t].result.models)]
         ELSE userModelsStore
    /\ SetTask(t, [tasks[t] EXCEPT
                      !.pc = IF tasks[t].result.success THEN "accEdit3"
                             ELSE "accEditFail",
                      !.result = NoResult])
    /\ UNCHANGED <<messageStore, userAcceptanceStore, userSelectedModelStore,
                   fetchingModelsFor, session, telegram>>

\* 247-249
AccEdit3(t) ==
    TelegramStep(t, "accEdit3", [tasks[t] EXCEPT !.pc = "accSleep"],
                 AcceptCaught(tasks[t]))

\* 249-256: the 1200 ms pause ends; the status message is deleted.
AccSleep(t) ==
    /\ At(t, "accSleep")
    /\ SetTask(t, [tasks[t] EXCEPT !.pc = "accDelete"])
    /\ UNCHANGED <<stores, session, telegram>>

\* 256-257
AccDelete(t) ==
    TelegramStep(t, "accDelete", [tasks[t] EXCEPT !.pc = "accFinal"],
                 AcceptCaught(tasks[t]))

\* 259-266
AccEditFail(t) ==
    TelegramStep(t, "accEditFail", [tasks[t] EXCEPT !.pc = "accFinal"],
                 AcceptCaught(tasks[t]))

\* 257 and 266
AccFinal(t) ==
    TelegramStep(t, "accFinal", Finish(tasks[t], FALSE),
                 AcceptCaught(tasks[t]))

\* 268-274: the edit inside the catch block is not guarded.
AccCatchEdit(t) ==
    TelegramStep(t, "accCatchEdit", Finish(tasks[t], FALSE),
                 Finish(tasks[t], TRUE))

AcceptPolicyHandler(t) ==
    \/ AccEdit1(t) \/ AccSave(t) \/ AccAnswer(t) \/ AccEdit2(t)
    \/ AcceptAfterNav(t) \/ AccEdit3(t) \/ AccSleep(t) \/ AccDelete(t)
    \/ AccEditFail(t) \/ AccFinal(t) \/ AccCatchEdit(t)

\* ------------------------------------------- the menu views (handlers.js)

\* The message a callback query comes from: a menu message of the chat that
\* still exists, or (0) a menu message of an earlier run of the process.
MenuMessages(c) ==
    {0} \cup {m \in MsgIds : chatOf[m] = c /\ view[m].kind # "none"}

\* ctx.editMessageText on the message of the callback query: it shows the
\* new text, or the call throws (always so when the message is gone).
EditMenuMessage(t, at, next, caught) ==
    /\ At(t, at)
    /\ LET m == tasks[t].msgId IN
       \/ /\ m # 0 => view[m].kind # "none"
          /\ view' = IF m = 0 THEN view
                     ELSE [view EXCEPT ![m] = tasks[t].text]
          /\ SetTask(t, next)
       \/ /\ SetTask(t, caught)
          /\ UNCHANGED view
    /\ UNCHANGED <<stores, session, nextMsgId, deleted, chatOf>>

\* 352-397: viewModelDetails up to its first await.
StartView(t, u, m, modelName) ==
    /\ NextFree(t)
    /\ m \in MenuMessages(ChatOf(u))
    /\ LET r == [IdleTask EXCEPT !.kind = "view", !.userId = u,
                                 !.modelName = modelName, !.msgId = m]
           models == ModelsOf(u)
           i == FindModel(models, modelName) IN
       SetTask(t, IF i = 0 THEN [r EXCEPT !.pc = "viewNotFound"]
                  ELSE [r EXCEPT !.pc = "viewEdit",
                                 !.text = DetailView(models[i])])
    /\ UNCHANGED <<stores, session, telegram>>

\* 360-361
ViewNotFound(t) ==
    TelegramStep(t, "viewNotFound", Finish(tasks[t], FALSE),
                 Finish(tasks[t], TRUE))

\* 396-404
ViewEdit(t) ==
    EditMenuMessage(t, "viewEdit", [tasks[t] EXCEPT !.pc = "viewAnswer"],
                    [tasks[t] EXCEPT !.pc = "viewCatchAnswer"])

\* 401-404
ViewAnswer(t) ==
    TelegramStep(t, "viewAnswer", Finish(tasks[t], FALSE),
                 [tasks[t] EXCEPT !.pc = "viewCatchAnswer"])

\* 402-405
ViewCatchAnswer(t) ==
    TelegramStep(t, "viewCatchAnswer", Finish(tasks[t], FALSE),
                 Finish(tasks[t], TRUE))

ViewModelDetails(t) ==
    \/ ViewNotFound(t) \/ ViewEdit(t) \/ ViewAnswer(t) \/ ViewCatchAnswer(t)

\* 412-436: backToModels up to its first await.
StartBack(t, u, m) ==
    /\ NextFree(t)
    /\ m \in MenuMessages(ChatOf(u))
    /\ LET r == [IdleTask EXCEPT !.kind = "back", !.userId = u, !.msgId = m]
           models == ModelsOf(u) IN
       SetTask(t, IF Len(models) = 0 THEN [r EXCEPT !.pc = "backEmpty"]
                  ELSE [r EXCEPT !.pc = "backEdit",
                                 !.text = ListView(models)])
    /\ UNCHANGED <<stores, session, telegram>>

\* 417-418
BackEmpty(t) ==
    TelegramStep(t, "backEmpty", Finish(tasks[t], FALSE),
                 Finish(tasks[t], TRUE))

\* 435-440
BackEdit(t) ==
    EditMenuMessage(t, "backEdit", [tasks[t] EXCEPT !.pc = "backAnswer"],
                    [tasks[t] EXCEPT !.pc = "backCatchAnswer"])

\* 437-440
BackAnswer(t) ==
    TelegramStep(t, "backAnswer", Finish(tasks[t], FALSE),
                 [tasks[t] EXCEPT !.pc = "backCatchAnswer"])

\* 438-441
BackCatchAnswer(t) ==
    TelegramStep(t, "backCatchAnswer", Finish(tasks[t], FALSE),
                 Finish(tasks[t], TRUE))

BackToModels(t) ==
    \/ BackEmpty(t) \/ BackEdit(t) \/ BackAnswer(t) \/ BackCatchAnswer(t)

\* -------------------------------- deleting the pair (handlers.js 461-504)

\* The deletion called without looking whether a pair is stored.
DeletePairCallUnchecked(r, c, delBot, after) ==
    [r EXCEPT !.pc = delBot, !.delId = messageStore[c].botMessageId]

\* The deletion of the latest message of the chat instead of the stored one.
DeletePairCallLatest(r, c, delBot, after) ==
    IF messageStore[c] # NoPair
    THEN [r EXCEPT !.pc = delBot, !.delId = nextMsgId - 1]
    ELSE after

\* 463-465 and 489-490: inside the try block, the stored pair is looked up
\* and the deletion of its menu message is called; `after` is the handler's
\* position when no pair is stored.
DeletePairCall(r, c, delBot, after) ==
    IF messageStore[c] # NoPair
    THEN [r EXCEPT !.pc = delBot, !.delId = messageStore[c].botMessageId]
    ELSE after

\* deleteMessage of message id: it is deleted, or the call throws (always
\* so when the message is gone already).
DeleteMessage(t, at, id, next, caught) ==
    /\ At(t, at)
    /\ \/ /\ id \notin deleted
          /\ deleted' = deleted \cup {id}
          /\ view' = [view EXCEPT ![id] = NoView]
          /\ next
       \/ /\ UNCHANGED <<deleted, view, messageStore>>
          /\ SetTask(t, caught)
    /\ UNCHANGED <<userAcceptanceStore, userModelsStore,
                   userSelectedModelStore, fetchingModelsFor, session,
                   nextMsgId, chatOf>>

\* 465-471 and 490-495: the menu message is deleted; the stored pair is read
\* again for the request message (a TypeError when the entry is gone).
DeleteBotMessage(t, at, delUser, caught) ==
    DeleteMessage(t, at, tasks[t].delId,
        /\ LET c == ChatOf(tasks[t].userId) IN
           SetTask(t, IF messageStore[c] = NoPair THEN caught
                      ELSE [tasks[t] EXCEPT
                               !.pc = delUser,
                               !.delId = messageStore[c].userMessageId])
        /\ UNCHANGED messageStore,
        caught)

\* 468-474 and 492-498: the request message is deleted and the entry of the
\* chat is removed.
DeleteUserMessage(t, at, caught) ==
    DeleteMessage(t, at, tasks[t].delId,
        /\ messageStore' =
             [messageStore EXCEPT ![ChatOf(tasks[t].userId)] = NoPair]
        /\ SetTask(t, Finish(tasks[t], FALSE)),
        caught)

\* --------------------------------------- handleModelSelection (handlers.js)

\* A selection kept in one place for all users.
StartSelectShared(t, u, modelName) ==
    /\ NextFree(t)
    /\ userSelectedModelStore' = [v \in Users |-> modelName]
    /\ SetTask(t, [IdleTask EXCEPT !.kind = "select", !.userId = u,
                                   !.modelName = modelName,
                                   !.pc = "selAnswer"])
    /\ UNCHANGED <<messageStore, userAcceptanceStore, userModelsStore,
                   fetchingModelsFor, session, telegram>>

\* 449-459
StartSelect(t, u, modelName) ==
    /\ NextFree(t)
    /\ userSelectedModelStore' =
         [userSelectedModelStore EXCEPT ![u] = modelName]
    /\ SetTask(t, [IdleTask EXCEPT !.kind = "select", !.userId = u,
                                   !.modelName = modelName,
                                   !.pc = "selAnswer"])
    /\ UNCHANGED <<messageStore, userAcceptanceStore, userModelsStore,
                   fetchingModelsFor, session, telegram>>

\* 457-465: the alert is answered; a throw of it leaves the handler.
SelAnswer(t) ==
    TelegramStep(t, "selAnswer",
                 DeletePairCall(tasks[t], ChatOf(tasks[t].userId),
                                "selDelBot", Finish(tasks[t], FALSE)),
                 Finish(tasks[t], TRUE))

\* 465-471, caught at 476-478
SelDelBot(t) ==
    DeleteBotMessage(t, "selDelBot", "selDelUser", Finish(tasks[t], FALSE))

\* 468-478
SelDelUser(t) ==
    DeleteUserMessage(t, "selDelUser", Finish(tasks[t], FALSE))

HandleModelSelection(t) ==
    \/ SelAnswer(t) \/ SelDelBot(t) \/ SelDelUser(t)

\* -------------------------------------------------- closeMenu (handlers.js)

\* 485-490
StartClose(t, u) ==
    /\ NextFree(t)
    /\ LET r == [IdleTask EXCEPT !.kind = "close", !.userId = u] IN
       SetTask(t, DeletePairCall(r, ChatOf(u), "closeDelBot",
                                 Finish(r, FALSE)))
    /\ UNCHANGED <<stores, session, telegram>>

\* 490-495, caught at 500-502
CloseDelBot(t) ==
    DeleteBotMessage(t, "closeDelBot", "closeDelUser",
                     [tasks[t] EXCEPT !.pc = "closeCatchAnswer",
                                      !.delId = 0])

\* 492-502
CloseDelUser(t) ==
    DeleteUserMessage(t, "closeDelUser",
                      [tasks[t] EXCEPT !.pc = "closeCatchAnswer",
                                       !.delId = 0])

\* 500-503: the answer inside the catch block is not guarded.
CloseCatchAnswer(t) ==
    TelegramStep(t, "closeCatchAnswer", Finish(tasks[t], FALSE),
                 Finish(tasks[t], TRUE))

CloseMenu(t) ==
    \/ CloseDelBot(t) \/ CloseDelUser(t) \/ CloseCatchAnswer(t)

\* ------------------------------------------------------------ specification

\* The updates Telegram delivers (src/unnamed/part_000 27-59): each starts a
\* handler for a user of the set us.
StartFetch(t, us) ==
    \E u \in us : StartShowModelMenu(t, u, MaxMsgId) \/ StartOpen(t, u)

StartMenu(t, us) ==
    \E u \in us :
        \/ \E m \in {0} \cup MsgIds, n \in Names : StartView(t, u, m, n)
        \/ \E m \in {0} \cup MsgIds : StartBack(t, u, m)
        \/ \E n \in Names : StartSelect(t, u, n)
        \/ StartClose(t, u)

\* Every user has accepted the policy in an earlier run (loadUsers, 28-43).
InitAccepted == Init /\ \A u \in Users : userAcceptanceStore[u]

\* The whole bot.
Next ==
    \E t \in Tasks :
        \/ StartFetch(t, Users)
        \/ \E u \in Users : StartAccept(t, u)
        \/ StartMenu(t, Users)
        \/ Navigate(t)
        \/ ShowModelMenu(t)
        \/ OpenHandler(t)
        \/ AcceptPolicyHandler(t)
        \/ ViewModelDetails(t)
        \/ BackToModels(t)
        \/ HandleModelSelection(t)
        \/ CloseMenu(t)

Spec == Init /\ [][Next]_vars

\* The menu requests of accepted users, which fetch through
\* ensureModelsLoaded.
NextFetch ==
    \E t \in Tasks :
        \/ \E u \in Users : StartShowModelMenu(t, u, MaxMsgId)
        \/ Navigate(t)
        \/ ShowModelMenu(t)

SpecFetch == InitAccepted /\ [][NextFetch]_vars

\* The menu of one accepted user: the request and the callbacks of its rows.
NextMenu ==
    \E t \in Tasks :
        \/ StartShowModelMenu(t, 1, MaxMenuMsgId)
        \/ StartMenu(t, {1})
        \/ Navigate(t)
        \/ ShowModelMenu(t)
        \/ ViewModelDetails(t)
        \/ BackToModels(t)
        \/ HandleModelSelection(t)
        \/ CloseMenu(t)

SpecMenu == InitAccepted /\ [][NextMenu]_vars

\* The fetches of one user: the menu request, /open and the acceptance of
\* the policy (its button stays in the chat).
NextCatalog ==
    \E t \in Tasks :
        \/ StartShowModelMenu(t, 1, MaxMenuMsgId)
        \/ StartOpen(t, 1)
        \/ StartAccept(t, 1)
        \/ Navigate(t)
        \/ ShowModelMenu(t)
        \/ OpenHandler(t)
        \/ AcceptPolicyHandler(t)

SpecCatalog == InitAccepted /\ [][NextCatalog]_vars

\* The menus of one accepted user, one after or during the other, with
\* Select and Close.
NextPairs ==
    \E t \in Tasks :
        \/ StartShowModelMenu(t, 1, MaxMsgId)
        \/ \E n \in Names : StartSelect(t, 1, n)
        \/ StartClose(t, 1)
        \/ Navigate(t)
        \/ ShowModelMenu(t)
        \/ HandleModelSelection(t)
        \/ CloseMenu(t)

SpecPairs == InitAccepted /\ [][NextPairs]_vars

\* The menu of one accepted user, with the callbacks of every user.
NextShared ==
    \E t \in Tasks :
        \/ StartShowModelMenu(t, 1, MaxMenuMsgId)
        \/ StartMenu(t, Users)
        \/ Navigate(t)
        \/ ShowModelMenu(t)
        \/ ViewModelDetails(t)
        \/ BackToModels(t)
        \/ HandleModelSelection(t)
        \/ CloseMenu(t)

SpecShared == InitAccepted /\ [][NextShared]_vars

\* A call of the exported navigateToDuckAI (tasks.js 14 and 236-239), with
\* either value of keepOpen.
StartNav(t, keepOpen) ==
    /\ NextFree(t)
    /\ launched < MaxLaunches
    /\ SetTask(t, NavCall([IdleTask EXCEPT !.kind = "nav",
                                           !.keepOpen = keepOpen]))
    /\ UNCHANGED <<stores, session, telegram>>

\* The caller of navigateToDuckAI receives what the call returned.
NavDone(t) ==
    /\ At(t, "navReturn")
    /\ tasks[t].kind = "nav"
    /\ SetTask(t, Finish(tasks[t], FALSE))
    /\ UNCHANGED <<stores, session, telegram>>

\* The runs of the driver by themselves, await by await.
NextDriver ==
    \E t \in Tasks :
        \/ \E keepOpen \in BOOLEAN : StartNav(t, keepOpen)
        \/ NavigateSteps(t)
        \/ Dispose(t)
        \/ NavDone(t)

SpecDriver == InitAccepted /\ [][NextDriver]_vars

\* The menu requests of accepted users, the runs of the driver await by
\* await.
NextFetchSteps ==
    \E t \in Tasks :
        \/ \E u \in Users : StartShowModelMenu(t, u, MaxMsgId)
        \/ NavigateSteps(t)
        \/ ShowModelMenu(t)

\* Every await of a handler settles: the waits of the driver carry a
\* timeout (Playwright's default where none is given), a Bot API call
\* resolves or rejects, and the event loop then resumes the handler.
FetchFairness == \A t \in Tasks : WF_vars(NavigateSteps(t) \/ ShowModelMenu(t))

SpecFetchFair == InitAccepted /\ [][NextFetchSteps]_vars /\ FetchFairness

\* No user has accepted the policy yet: the users file is empty at startup
\* (loadUsers, 28-43).
InitNew == Init /\ \A u \in Users : ~userAcceptanceStore[u]

\* The entry points that fetch, from a start with no accepted user: the
\* menu requests and /open of every user, and the acceptance of user 1.
NextPolicy ==
    \E t \in Tasks :
        \/ \E u \in Users : StartShowModelMenu(t, u, MaxMenuMsgId)
        \/ \E u \in Users : StartOpen(t, u)
        \/ StartAccept(t, 1)
        \/ Navigate(t)
        \/ ShowModelMenu(t)
        \/ OpenHandler(t)
        \/ AcceptPolicyHandler(t)

SpecPolicy == InitNew /\ [][NextPolicy]_vars

\* ------------------------------------------------------------------ claims

\* The positions of a navigateToDuckAI call that has not returned.
AcquirePcs == {"launch", "newContext", "addInitScript", "newPage", "goto"}
RunPcs == AcquirePcs \cup PagePcs \cup {"catchClose", "closeBrowser"}

\* The positions of an ensureModelsLoaded call inside its try block
\* (handlers.js 135-181).
EnsureFetchPcs ==
    {"emlReply", "navReturn", "emlEditOk", "emlEditFail"} \cup RunPcs

InDriver(t) == tasks[t].pc \in RunPcs
InFetch(t) == tasks[t].kind = "menu" /\ tasks[t].pc \in EnsureFetchPcs
HasCatalog(u) ==
    userModelsStore[u].present /\ Len(userModelsStore[u].models) > 0

\* The step is task t's, and starts a handler of this kind in it.
Starts(t, kind) ==
    /\ Free(t)
    /\ tasks'[t] # tasks[t]
    /\ tasks'[t].kind = kind

\* The step is task t's, and ends its handler.
Ends(t, kind) ==
    /\ ~Free(t)
    /\ tasks[t].kind = kind
    /\ tasks'[t].pc = "done"

\* accepted user u's showModelMenu calls ensureModelsLoaded in this step.
CallsEnsure(t, u) ==
    /\ Starts(t, "menu")
    /\ tasks'[t].userId = u
    /\ userAcceptanceStore[u]

\* C1: of the ensureModelsLoaded calls of one user that overlap, at most one
\* is inside navigateToDuckAI (or anywhere in the fetch); a call made while
\* another call of the user is fetching and no non-empty catalog is stored
\* returns Busy in the same turn, changing neither FetchGuard nor the
\* session.
C1_OneFetchPerUser ==
    \A s, t \in Tasks :
        (s # t /\ InFetch(s) /\ InFetch(t))
            => tasks[s].userId # tasks[t].userId

C1_BusyAtOnce ==
    \A t \in Tasks, u \in Users :
        (/\ CallsEnsure(t, u)
         /\ ~HasCatalog(u)
         /\ \E s \in Tasks : s # t /\ InFetch(s) /\ tasks[s].userId = u)
        => /\ tasks'[t].pc = "smmEnsure"
           /\ tasks'[t].loadResult = Busy
           /\ UNCHANGED <<fetchingModelsFor, session>>

C1_AtMostOneFetches == []C1_OneFetchPerUser /\ [][C1_BusyAtOnce]_vars

C1_Witness ==
    \E s, t \in Tasks :
        /\ s # t
        /\ tasks[s].userId = tasks[t].userId
        /\ tasks[s].kind = "menu"
        /\ InDriver(s)
        /\ tasks[t].pc = "smmEnsure"
        /\ tasks[t].loadResult = Busy

\* C2: a user is in fetchingModelsFor exactly while one of its
\* ensureModelsLoaded calls is inside the try block, so not after the call
\* returned (Loaded, Failed or a caught exception); and a call is answered
\* Busy only while another call of the user is inside it.
C2_GuardIffFetching ==
    \A u \in Users :
        u \in fetchingModelsFor
            <=> \E t \in Tasks : InFetch(t) /\ tasks[t].userId = u

C2_BusyOnlyWhileFetching ==
    \A t \in Tasks, u \in Users :
        (CallsEnsure(t, u) /\ tasks'[t].loadResult = Busy)
            => \E s \in Tasks : s # t /\ InFetch(s) /\ tasks[s].userId = u

C2_GuardReleased == []C2_GuardIffFetching /\ [][C2_BusyOnlyWhileFetching]_vars

C2_Witness ==
    \E t \in Tasks :
        /\ tasks[t].pc = "smmEnsure"
        /\ tasks[t].loadResult = Failed(<<TelegramError>>)
        /\ tasks[t].userId \notin fetchingModelsFor
        /\ \A s \in Tasks : ~InFetch(s)

\* C3: at most one navigateToDuckAI call is running, whatever the users and
\* the entry points.
C3_OneRunSystemWide == Cardinality({t \in Tasks : InDriver(t)}) <= 1

\* C4: at most one browser process is alive.
C4_OneSession == Cardinality(browsers) <= 1

\* C5: with a non-empty catalog stored for the user, ensureModelsLoaded
\* returns AlreadyLoaded in the same turn: no status message is being sent,
\* FetchGuard, the catalogs and the session are unchanged; and a call that
\* returned AlreadyLoaded stands after the call, never inside the driver.
C5_NoWorkWhenLoaded ==
    \A t \in Tasks, u \in Users :
        (CallsEnsure(t, u) /\ HasCatalog(u))
        => /\ tasks'[t].pc = "smmEnsure"
           /\ tasks'[t].loadResult = AlreadyLoaded
           /\ UNCHANGED <<fetchingModelsFor, userModelsStore, session>>

C5_LoadedStaysOut ==
    \A t \in Tasks :
        tasks[t].loadResult.alreadyLoaded
            => tasks[t].pc \in {"smmEnsure", "smmReply"}

C5_AlreadyLoaded == []C5_LoadedStaysOut /\ [][C5_NoWorkWhenLoaded]_vars

C5_Witness ==
    \E t \in Tasks :
        /\ tasks[t].pc = "smmEnsure"
        /\ tasks[t].loadResult = AlreadyLoaded
        /\ HasCatalog(tasks[t].userId)

\* C6: a Select of name N by user U records N for U, and when it has
\* completed no pair is stored for the chat, whether or not the deletions
\* succeeded.  (The selection is looked at where it is recorded: a later
\* Select of the same user overwrites it.)
C6_SelectClosesMenu ==
    [][\A t \in Tasks :
         /\ Starts(t, "select")
              => userSelectedModelStore'[tasks'[t].userId]
                     = tasks'[t].modelName
         /\ (Ends(t, "select") /\ ~tasks'[t].raised)
              => messageStore'[ChatOf(tasks[t].userId)] = NoPair]_vars

\* The positions of a closeMenu call that found a pair stored.
CloseWithPairPcs == {"closeDelBot", "closeDelUser", "closeCatchAnswer"}

\* C7: a Close that found a pair stored ends with the pair removed and
\* without raising, also when a deletion failed; and a failed deletion of
\* the menu message is followed by the attempt on the request message.
C7_CloseRemovesPair ==
    [][\A t \in Tasks :
         /\ (Ends(t, "close") /\ tasks[t].pc \in CloseWithPairPcs)
              => /\ messageStore'[ChatOf(tasks[t].userId)] = NoPair
                 /\ ~tasks'[t].raised
         /\ (tasks[t].pc = "closeDelBot" /\ tasks'[t] # tasks[t])
              => tasks'[t].pc = "closeDelUser"]_vars

\* C8: a Close on a chat without a stored pair ends in the same turn without
\* raising, deletes no message and leaves the pairs, the catalogs, the
\* selections, FetchGuard and the menu messages as they are: a Close on a
\* Closed chat, the second of two Closes included, changes nothing.
C8_CloseOnClosed ==
    [][\A t \in Tasks :
         (/\ Starts(t, "close")
          /\ messageStore[ChatOf(tasks'[t].userId)] = NoPair)
         => /\ tasks'[t].pc = "done"
            /\ ~tasks'[t].raised
            /\ UNCHANGED <<stores, session, telegram>>]_vars

C8_Witness ==
    \E t \in Tasks :
        /\ tasks[t].pc = "done"
        /\ tasks[t].kind = "close"
        /\ ~tasks[t].raised
        /\ messageStore[ChatOf(tasks[t].userId)] = NoPair
        /\ deleted = {}

\* modelName is the name of no entry of user u's stored catalog.
NotInCatalog(u, modelName) ==
    \A i \in 1..Len(userModelsStore[u].models) :
        userModelsStore[u].models[i].name # modelName

\* C9: viewModelDetails for a name that is the name of no entry of the
\* user's stored catalog only answers the callback query ("Model not
\* found"): neither that call's start nor its end changes what a menu
\* message displays, the pairs, the catalogs or the selections.
C9_NotFoundChangesNothing ==
    [][\A t \in Tasks :
         /\ (/\ Starts(t, "view")
             /\ NotInCatalog(tasks'[t].userId, tasks'[t].modelName))
              => /\ tasks'[t].pc = "viewNotFound"
                 /\ UNCHANGED <<stores, session, telegram>>
         /\ (tasks[t].pc = "viewNotFound" /\ tasks'[t] # tasks[t])
              => /\ tasks'[t].pc = "done"
                 /\ UNCHANGED <<stores, session, telegram>>]_vars

C9_Witness ==
    \E t \in Tasks :
        /\ tasks[t].pc = "viewNotFound"
        /\ HasCatalog(tasks[t].userId)
        /\ \E m \in MsgIds : view[m].kind = "list"

\* The reasons navigateToDuckAI reports: what launching the browser, a wait
\* or a click, the challenge check, or a page that is still null threw.
DriverReasons ==
    {<<"Error: ", m>> : m \in {LaunchError, TimeoutError, ChallengeError,
                                NullPageError}}

\* The step is task t's, taken from this position of a fetch whose
\* navigateToDuckAI call failed.
FailedFetchStep(t, at) ==
    /\ tasks[t].kind = "menu"
    /\ tasks[t].pc = at
    /\ ~tasks[t].result.success
    /\ tasks'[t] # tasks[t]

\* ensureModelsLoaded turns a failed run into a result that does not raise
\* and stores nothing; the caller then stops without a menu.
C10_FailureContained ==
    \A t \in Tasks :
        /\ FailedFetchStep(t, "navReturn")
               => /\ tasks[t].result.message \in DriverReasons
                  /\ tasks'[t].pc = "emlEditFail"
                  /\ UNCHANGED userModelsStore
        /\ FailedFetchStep(t, "emlEditFail")
               => /\ tasks'[t].pc = "smmEnsure"
                  /\ tasks'[t].loadResult.status = "Failed"
                  /\ ~tasks'[t].loadResult.success
                  /\ tasks'[t].loadResult.message
                         \in {tasks[t].result.message, <<TelegramError>>}
                  /\ ~tasks'[t].raised
                  /\ ~HasCatalog(tasks[t].userId)
                  /\ UNCHANGED userModelsStore
        /\ (/\ tasks[t].kind = "menu"
            /\ tasks[t].pc = "smmEnsure"
            /\ tasks[t].loadResult.status = "Failed"
            /\ tasks'[t] # tasks[t])
               => /\ tasks'[t].pc = "done"
                  /\ ~tasks'[t].raised
                  /\ UNCHANGED <<stores, telegram>>

\* C10: every failure of navigateToDuckAI during ensureModelsLoaded (a
\* detected challenge, a timed-out wait, a launch error) becomes a Failed
\* result carrying the driver's reason string; ensureModelsLoaded does not
\* raise, no catalog is stored for the user, and showModelMenu sees only the
\* failure and the reason.
C10_FailureCarriesReason ==
    [][/\ C10_FailureContained
       /\ \A t \in Tasks :
              FailedFetchStep(t, "emlEditFail")
                  => tasks'[t].loadResult = Failed(tasks[t].result.message)
      ]_vars

\* What holds of such a failure whatever the status message's edit does.
C10_Contained == [][C10_FailureContained]_vars

\* The positions of the dismiss step (tasks.js 178-191): the entries are
\* extracted.
DismissPcs == {"clickClose", "waitClosed", "escape"}

\* C11: once the entries are extracted, no outcome of the dismiss step, a
\* failing click, wait or Escape key included, makes the run fail: the step
\* goes on within the dismiss step, to the disposal of the session, or
\* returns success with the entries extracted.
C11_DismissFailureSwallowed ==
    [][\A t \in Tasks :
         (tasks[t].pc \in DismissPcs /\ tasks'[t] # tasks[t])
         => \/ tasks'[t].pc \in DismissPcs \cup {"closeBrowser"}
            \/ /\ tasks'[t].pc = "navReturn"
               /\ tasks'[t].result = NavSuccess(tasks[t].models)]_vars

\* The view v is the list of the catalog ms: one row per entry, in the
\* catalog's order, labelled with the name and the bracketed beta marker of
\* the entry, then the Close row.
ShowsCatalog(v, ms) ==
    /\ v.kind = "list"
    /\ Len(v.rows) = Len(ms) + 1
    /\ \A i \in 1..Len(ms) :
         v.rows[i].text = IF ms[i].isBeta = "" THEN <<ms[i].name>>
                          ELSE <<ms[i].name, " [", ms[i].isBeta, "]">>
    /\ v.rows[Len(ms) + 1].text = <<"Close">>

\* The view v is the detail of an entry of ms of this name: its features
\* in order.
ShowsEntry(v, ms, modelName) ==
    /\ v.kind = "detail"
    /\ \E i \in 1..Len(ms) : /\ ms[i].name = modelName
                             /\ v.rows = ms[i].features

\* C12: the list showModelMenu sends and the list backToModels rebuilds are
\* the list of the user's catalog as stored when the list is built, and are
\* what the menu message then displays; viewModelDetails of the name of a
\* stored entry builds and displays that entry's features in order.
C12_ListShowsCatalog ==
    [][\A t \in Tasks :
         LET u == tasks'[t].userId
             m == tasks[t].msgId IN
         /\ (tasks[t].pc = "smmEnsure" /\ tasks'[t].pc = "smmReply")
              => ShowsCatalog(tasks'[t].text, userModelsStore[u].models)
         /\ (tasks[t].pc = "smmReply" /\ nextMsgId' # nextMsgId)
              => view'[nextMsgId] = tasks[t].text
         /\ (Starts(t, "back") /\ Len(userModelsStore[u].models) > 0)
              => /\ tasks'[t].pc = "backEdit"
                 /\ ShowsCatalog(tasks'[t].text, userModelsStore[u].models)
         /\ (Starts(t, "view") /\ ~NotInCatalog(u, tasks'[t].modelName))
              => /\ tasks'[t].pc = "viewEdit"
                 /\ ShowsEntry(tasks'[t].text, userModelsStore[u].models,
                               tasks'[t].modelName)
         /\ (/\ tasks[t].pc \in {"backEdit", "viewEdit"}
             /\ tasks'[t] # tasks[t]
             /\ view' # view)
              => /\ m # 0
                 /\ view' = [view EXCEPT ![m] = tasks[t].text]]_vars

C12_Witness ==
    \E t \in Tasks, m \in MsgIds :
        /\ tasks[t].kind = "back"
        /\ tasks[t].pc = "done"
        /\ ShowsCatalog(view[m], <<EntryA, EntryB>>)

Disposes ==
    \/ globalBrowser # 0 /\ globalBrowser' = 0
    \/ globalContext # 0 /\ globalContext' = 0
    \/ globalPage # 0 /\ globalPage' = 0
    \/ \E b \in browsers : b \notin browsers'

\* C14: a browser is closed or a handle cleared only by a run called with
\* keepOpen = false, whose close() resolved: the browser it closed is gone
\* and the three handles are null; a run with keepOpen = true that fails
\* leaves the handles and the browsers as they are; and a run that starts
\* while a browser is stored launches none.
C14_DisposedOnlyIfNotKept ==
    [][/\ Disposes
          => \E t \in Tasks :
               /\ tasks[t].pc \in {"catchClose", "closeBrowser"}
               /\ tasks'[t].pc = "navReturn"
               /\ ~tasks[t].keepOpen
               /\ tasks[t].closing \notin browsers'
               /\ globalBrowser' = 0
               /\ globalContext' = 0
               /\ globalPage' = 0
       /\ \A t \in Tasks :
            /\ (/\ tasks[t].keepOpen
                /\ InDriver(t)
                /\ tasks'[t].pc = "navReturn"
                /\ ~tasks'[t].result.success)
                 => UNCHANGED <<globalBrowser, globalContext, globalPage,
                                browsers, launched>>
            /\ (/\ ~tasks[t].keepOpen
                /\ InDriver(t)
                /\ tasks[t].pc # "catchClose"
                /\ tasks'[t].pc = "navReturn"
                /\ ~tasks'[t].result.success)
                 => globalBrowser = 0
            /\ (Starts(t, "nav") /\ globalBrowser # 0)
                 => /\ tasks'[t].pc # "launch"
                    /\ launched' = launched]_vars

C14_Witness ==
    \E s, t \in Tasks :
        /\ tasks[s].kind = "nav"
        /\ tasks[s].pc = "navReturn"
        /\ tasks[s].keepOpen
        /\ tasks[s].result = NavFailure(ChallengeError)
        /\ tasks[t].kind = "nav"
        /\ tasks[t].keepOpen
        /\ tasks[t].pc = "waitButton"
        /\ tasks[t].launchId = 0
        /\ globalBrowser # 0
        /\ launched = 1

\* The step is task t's, which receives the result of its run.
FetchCompletes(t) ==
    /\ tasks[t].pc = "navReturn"
    /\ tasks[t].kind \in {"menu", "open", "accept"}
    /\ tasks'[t] # tasks[t]

\* C15: the catalog of a user changes only when a fetch of that user
\* completes with success, to exactly the entries of that fetch; every
\* fetch that completes with success stores its entries, so the last one to
\* complete wins; and a fetch that completes with a failure leaves the
\* catalogs as they are.
C15_LastFetchWins ==
    [][/\ \A u \in Users :
            userModelsStore'[u] # userModelsStore[u]
            => \E t \in Tasks :
                 /\ FetchCompletes(t)
                 /\ tasks[t].userId = u
                 /\ tasks[t].result.success
                 /\ userModelsStore'[u] = Stored(tasks[t].result.models)
       /\ \A t \in Tasks :
            FetchCompletes(t)
            => IF tasks[t].result.success
               THEN userModelsStore'[tasks[t].userId]
                        = Stored(tasks[t].result.models)
               ELSE UNCHANGED userModelsStore]_vars

C15_Witness ==
    \E s, t \in Tasks :
        /\ tasks[s].kind = "menu"
        /\ tasks[s].pc = "navReturn"
        /\ tasks[s].result = NavSuccess(<<EntryA>>)
        /\ tasks[t].kind = "open"
        /\ tasks[t].pc = "openReplyDone"
        /\ userModelsStore[1] = Stored(<<EntryA, EntryB>>)

\* C16: a Select records a name for a user only when it is the name of an
\* entry of the catalog stored for that user at that moment.
C16_SelectsCatalogEntry ==
    [][\A t \in Tasks :
         Starts(t, "select")
         => ~NotInCatalog(tasks'[t].userId, tasks'[t].modelName)]_vars

\* C17: showModelMenu ends without a menu and without a pair when
\* ensureModelsLoaded returned Busy or Failed or when no entry is stored
\* for the user; it goes on to send the menu only with a non-empty catalog
\* stored; and a pair is stored only by the showModelMenu call whose menu,
\* of at least one entry, was sent.
C17_PairOnlyWithCatalog ==
    [][/\ \A t \in Tasks :
            (tasks[t].pc = "smmEnsure" /\ tasks'[t] # tasks[t])
            => IF \/ tasks[t].loadResult.status \in {"Busy", "Failed"}
                  \/ ~HasCatalog(tasks[t].userId)
               THEN /\ tasks'[t].pc = "done"
                    /\ UNCHANGED <<messageStore, telegram>>
               ELSE tasks'[t].pc = "smmReply"
       /\ \A c \in Users :
            (messageStore'[c] # messageStore[c] /\ messageStore'[c] # NoPair)
            => \E t \in Tasks :
                 /\ tasks[t].pc = "smmReply"
                 /\ tasks'[t].pc = "done"
                 /\ ChatOf(tasks[t].userId) = c
                 /\ tasks[t].loadResult.status \in {"Loaded", "AlreadyLoaded"}
                 /\ Len(tasks[t].text.rows) >= 2
                 /\ view'[messageStore'[c].botMessageId] = tasks[t].text]_vars

C17_Witness ==
    \E s, t \in Tasks :
        /\ tasks[s].kind = "menu"
        /\ tasks[s].pc = "done"
        /\ ~tasks[s].raised
        /\ userModelsStore[tasks[s].userId] = Stored(<<>>)
        /\ messageStore[ChatOf(tasks[s].userId)] = NoPair
        /\ tasks[t].pc = "smmEnsure"
        /\ tasks[t].loadResult = Busy

\* The messages the pair stored for chat c names.
PairMessages(c) ==
    {messageStore[c].userMessageId, messageStore[c].botMessageId} \ {0}

Reaches(t, at) == tasks'[t].pc = at /\ tasks[t].pc # at

\* The run of task t fails in this step for a visible challenge indicator,
\* with no entries.
FailsOnChallenge(t) ==
    \/ /\ tasks'[t].pc = "navReturn"
       /\ tasks'[t].result = NavFailure(ChallengeError)
    \/ /\ tasks'[t].pc = "catchClose"
       /\ tasks'[t].error = ChallengeError

\* The second check: made once the list-revealing control is visible, and
\* the control is clicked only right after it found no challenge; either
\* check that finds one fails the run at once.
C19_CheckGuardsClick ==
    \A t \in Tasks :
        /\ Reaches(t, "captcha2") => tasks[t].pc = "waitButton"
        /\ Reaches(t, "clickDropdown") => tasks[t].pc = "captcha2"
        /\ Reaches(t, "clickAgree") => tasks[t].pc = "modalVisible"
        /\ Reaches(t, "modalVisible") => tasks[t].pc = "captcha1"
        /\ (tasks[t].pc = "captcha1" /\ tasks'[t] # tasks[t])
             => tasks'[t].pc = "modalVisible" \/ FailsOnChallenge(t)
        /\ (tasks[t].pc = "captcha2" /\ tasks'[t] # tasks[t])
             => tasks'[t].pc = "clickDropdown" \/ FailsOnChallenge(t)

\* C19: every run, on a page it navigated to or on a page already on the
\* site, checks the challenge indicator before the consent dialog (so
\* before it waits for the list-revealing control) and again between that
\* wait and the click; a visible indicator at either check fails the run
\* with the challenge error, without the click and without entries.
C19_ChallengeCheckedTwice ==
    [][/\ C19_CheckGuardsClick
       /\ \A t \in Tasks :
            Reaches(t, "waitButton")
                => tasks[t].pc \in {"modalVisible", "waitModalHidden"}
      ]_vars

\* What holds of the checks on either kind of page.
C19_SecondCheck == [][C19_CheckGuardsClick]_vars

\* The awaits of navigateToDuckAI in program order, and the return.
RunOrder ==
    <<"launch", "newContext", "addInitScript", "newPage", "goto", "settle",
      "captcha1", "modalVisible", "clickAgree", "waitModalHidden",
      "waitButton", "captcha2", "clickDropdown", "waitList", "eval",
      "clickClose", "waitClosed", "escape", "closeBrowser", "catchClose",
      "navReturn">>

Position(pc) == CHOOSE i \in 1..Len(RunOrder) : RunOrder[i] = pc

\* The bounded waits of the driver up to the list (tasks.js 83, 110, 118,
\* 142) and the clicks among them (109, 137), with what follows each.
WaitSteps ==
    [goto |-> "settle", clickAgree |-> "waitModalHidden",
     waitModalHidden |-> "waitButton", waitButton |-> "captcha2",
     clickDropdown |-> "waitList", waitList |-> "eval"]

\* Every step of a run moves it forward in the program: no await is made
\* twice.
C20_NoStepTwice ==
    \A t \in Tasks :
        (InDriver(t) /\ tasks'[t] # tasks[t])
            => /\ tasks'[t].pc \in RunPcs \cup {"navReturn"}
               /\ Position(tasks'[t].pc) > Position(tasks[t].pc)

\* A wait either completes, and the run goes on to the next step, or fails
\* the whole run.
C20_ExceededWaitFails ==
    \A t \in Tasks :
        (tasks[t].pc \in DOMAIN WaitSteps /\ tasks'[t] # tasks[t])
            => \/ tasks'[t].pc = WaitSteps[tasks[t].pc]
               \/ /\ tasks'[t].pc = "navReturn"
                  /\ tasks'[t].result = NavFailure(TimeoutError)
               \/ /\ tasks'[t].pc = "catchClose"
                  /\ tasks'[t].error = TimeoutError

\* C20: every run of the driver terminates: each of its steps is made at
\* most once, a wait that exceeds its bound fails the run, nothing is
\* retried; so every ensureModelsLoaded call that added its user to
\* fetchingModelsFor returns and removes it.
C20_FetchTerminates ==
    /\ [][C20_NoStepTwice /\ C20_ExceededWaitFails]_vars
    /\ \A t \in Tasks : InDriver(t) ~> ~InDriver(t)
    /\ \A t \in Tasks : InFetch(t) ~> ~InFetch(t)
    /\ \A u \in Users : (u \in fetchingModelsFor) ~> (u \notin fetchingModelsFor)

\* A fetch has ended on a wait that exceeded its bound, and the user is out
\* of the set again.
C20_Witness ==
    \E t \in Tasks :
        /\ tasks[t].kind = "menu"
        /\ tasks[t].pc = "smmEnsure"
        /\ tasks[t].loadResult = Failed(NavFailure(TimeoutError).message)
        /\ tasks[t].userId \notin fetchingModelsFor

\* The ensureModelsLoaded call of task t has assigned the entries of its run
\* to userModelsStore (handlers.js 147) and has not returned yet.
StoredByCall(t) ==
    /\ tasks[t].kind = "menu"
    /\ tasks[t].pc = "emlEditOk"
    /\ Len(tasks[t].result.models) > 0

\* The ensureModelsLoaded call of task t returns in this step.
EnsureReturns(t) ==
    /\ tasks[t].kind = "menu"
    /\ tasks[t].pc \in EnsureFetchPcs
    /\ tasks'[t].pc = "smmEnsure"

\* C21: an ensureModelsLoaded call that returns success = false has stored
\* no catalog for its user, whichever of its steps failed, the send and the
\* edit of the status message included.
C21_FailureStoresNothing ==
    [][\A t \in Tasks :
         (EnsureReturns(t) /\ ~tasks'[t].loadResult.success)
             => ~StoredByCall(t)]_vars

\* What holds: a call that fails before the run returned its entries, or
\* whose run failed, leaves the stored catalogs as they are in every step
\* of its own.
C21_FailedRunStoresNothing ==
    [][\A t \in Tasks :
         (InFetch(t) /\ tasks[t].pc # "navReturn" /\ tasks'[t] # tasks[t])
             => userModelsStore' = userModelsStore]_vars

\* The positions of a cleanup (handleModelSelection 461-478, closeMenu
\* 485-504): the deletion of the menu message, then that of the request
\* message.
DelBotPcs == {"selDelBot", "closeDelBot"}
DelUserPcs == {"selDelUser", "closeDelUser"}

\* The cleanup of task t has its deleteMessage call succeed in this step.
CleanupDeletes(t, at) ==
    /\ tasks[t].pc \in at
    /\ tasks'[t] # tasks[t]
    /\ deleted' # deleted

\* C22: whatever is rendered or cleaned up in the chat meanwhile, a cleanup
\* deletes the menu message and the request message of one and the same
\* pair and removes that pair's entry only: once its menu message is
\* deleted it goes on to the request message of the same pair (it does not
\* fail on an entry another cleanup removed, and does not take the request
\* message of a pair stored since), and the entry it removes is the one
\* whose request message it deleted.
C22_CleanupOfOnePair ==
    [][\A t \in Tasks :
         LET pair == messageStore[ChatOf(tasks[t].userId)] IN
         /\ CleanupDeletes(t, DelBotPcs)
              => /\ tasks'[t].pc \in DelUserPcs
                 /\ pair.botMessageId = tasks[t].delId
         /\ CleanupDeletes(t, DelUserPcs)
              => pair.userMessageId = tasks[t].delId
      ]_vars

\* A handler calls navigateToDuckAI in this step of task t: the call runs
\* up to its first await, or to the throw of page.url() (tasks.js 14-82).
CallsDriver(t) ==
    /\ tasks[t].pc \notin RunPcs \cup {"navReturn"}
    /\ tasks'[t].pc \in RunPcs \cup {"navReturn"}

\* C23: a navigateToDuckAI call that finds globalBrowser set finds the
\* context and the page set too, and has a page to work on, also while
\* another call is between its launch and its new page.
C23_SessionComplete ==
    [][\A t \in Tasks :
         (CallsDriver(t) /\ globalBrowser # 0)
             => /\ globalContext # 0
                /\ globalPage # 0
                /\ tasks'[t].page # 0]_vars

\* The handler of task t is in a run of the driver, or has its result in
\* hand.
RunsDriver(t) == InDriver(t) \/ tasks[t].pc = "navReturn"

\* A menu request or /open of a user who has not accepted ends in the step
\* that starts it, and changes nothing else.
Refused(t) ==
    /\ tasks'[t].pc = "done"
    /\ ~tasks'[t].raised
    /\ UNCHANGED <<stores, session, telegram>>

\* Catalogs, runs, fetches and menus belong to users who have accepted.
C24_OnlyAccepted ==
    /\ \A u \in Users :
         \/ userAcceptanceStore[u]
         \/ /\ userModelsStore[u] = Absent
            /\ messageStore[ChatOf(u)] = NoPair
            /\ u \notin fetchingModelsFor
    /\ \A t \in Tasks : RunsDriver(t) => userAcceptanceStore[tasks[t].userId]

\* C24: a catalog is stored only for users who have accepted the policy:
\* the menu request, /open and the acceptance run the driver for a user
\* whose flag is set, and a menu request or /open of a user who has not
\* accepted runs no driver, stores no catalog and no pair.
C24_CatalogOnlyIfAccepted ==
    /\ []C24_OnlyAccepted
    /\ [][\A t \in Tasks :
            ((Starts(t, "menu") \/ Starts(t, "open"))
               /\ ~userAcceptanceStore[tasks'[t].userId]) => Refused(t)]_vars

\* User 2, who has not accepted, had /open refused, while user 1, who
\* accepted in this run, has a catalog.
C24_Witness ==
    /\ ~userAcceptanceStore[2]
    /\ userAcceptanceStore[1]
    /\ HasCatalog(1)
    /\ \E t \in Tasks :
         /\ tasks[t].pc = "done"
         /\ tasks[t].kind = "open"
         /\ tasks[t].userId = 2

====
